---- MODULE Spec2Model ----
(***************************************************************************)
(* Model of chain/client/src/client.rs: the RemoteStore adapter and the    *)
(* Client session (send, submit_work_proof, get_bitcoin_block_hashes,      *)
(* get_bitcoin_tip, get_signatory_sets, get_signatory_set_snapshot,        *)
(* get_balance), running against a node whose store and header chain       *)
(* change independently of the client.                                     *)
(*                                                                         *)
(* Byte strings are sequences of integers 0..255; store keys are the       *)
(* ASCII bytes of the literals in the source.                              *)
(***************************************************************************)
EXTENDS Integers, Sequences, FiniteSets, TLC

VARIABLES
    store,         \* the node's replicated key/value store: key -> Option<bytes>
    headers,       \* the Bitcoin headers the node's SPV client has synchronized
    alive,         \* FALSE once a panic has terminated the client process
    pc,            \* "idle", or "prev" between the two lookups of get_signatory_sets
    lastAct,       \* "client" or "node": who took the latest step
    lastOp,        \* the operation the client ran (or is running) last
    args,          \* the arguments of that operation
    adapterCalls,  \* the RemoteStore calls that operation made, with their answers
    rpcCalls,      \* the Tendermint RPC requests that operation made, with their answers
    result         \* what that operation returned (Ok / Err), or Panic

vars == <<store, headers, alive, pc, lastAct, lastOp, args, adapterCalls, rpcCalls, result>>

(***************************************************************************)
(* Values                                                                  *)
(***************************************************************************)
None == [some |-> FALSE]
Some(v) == [some |-> TRUE, val |-> v]

Ok(v) == [kind |-> "Ok", val |-> v]
Err(class, msg) == [kind |-> "Err", class |-> class, msg |-> msg]
Panic(msg) == [kind |-> "Panic", msg |-> msg]

Last(s) == s[Len(s)]

(***************************************************************************)
(* Store keys (client.rs lines 131, 132, 137, 144)                         *)
(***************************************************************************)
SignatoriesKey == <<115, 105, 103, 110, 97, 116, 111, 114, 105, 101, 115>>
PrevSignatoriesKey == <<112, 114, 101, 118, 95>> \o SignatoriesKey
BalancesPrefix == <<98, 97, 108, 97, 110, 99, 101, 115, 47>>

BalanceKey(address) == BalancesPrefix \o address

(***************************************************************************)
(* Bounds and sample inputs                                                *)
(***************************************************************************)
MaxTrunk == 3

Addresses == {<<1>>, <<2>>}
Keys == {SignatoriesKey, PrevSignatoriesKey} \cup {BalanceKey(a) : a \in Addresses}

PublicKeys == {<<1, 2, 3>>}
Nonces == {0, 42}
CommitResults == {"commit-a", "commit-b"}
TransportErrors == {"connection refused"}

(***************************************************************************)
(* u64 <-> 8 big-endian bytes (client.rs lines 150-152)                    *)
(***************************************************************************)
BalanceLen == 8
ByteBase == 256

RECURSIVE BeFold(_, _)
BeFold(acc, bytes) ==
    IF bytes = <<>> THEN acc
    ELSE BeFold(acc * ByteBase + Head(bytes), Tail(bytes))

\* u64::from_be_bytes: the first byte is the most significant one.
from_be_bytes(bytes) == BeFold(0, bytes)

RECURSIVE BeDigits(_, _)
BeDigits(v, n) ==
    IF n = 0 THEN <<>>
    ELSE Append(BeDigits(v \div ByteBase, n - 1), v % ByteBase)

\* u64::to_be_bytes, the encoding the node stores a balance in.
to_be_bytes(v) == BeDigits(v, BalanceLen)

\* <[T]>::copy_from_slice: panics unless both slices have the same length.
copy_from_slice(dst, src) ==
    IF Len(src) = Len(dst) THEN Ok(src)
    ELSE Panic("source slice length does not match destination slice length")

(***************************************************************************)
(* SignatorySetSnapshot (crate nomic_signatory_set).  The wire format is   *)
(* <<time, n, s_1, ..., s_n>>: a time byte, a count and one byte for each  *)
(* signatory.                                                              *)
(***************************************************************************)
SnapshotDecodeMsg == "failed to decode signatory set snapshot"

SignatorySetSnapshotDecode(bytes) ==
    IF Len(bytes) >= 2 /\ bytes[2] = Len(bytes) - 2
    THEN Ok([time |-> bytes[1], signatories |-> SubSeq(bytes, 3, Len(bytes))])
    ELSE Err("Decode", SnapshotDecodeMsg)

SignatorySetSnapshotEncode(snapshot) ==
    <<snapshot.time, Len(snapshot.signatories)>> \o snapshot.signatories

(***************************************************************************)
(* Transactions and their JSON wire form (client.rs lines 75, 102-105)     *)
(***************************************************************************)
WorkProof(public_key, nonce) ==
    [tag |-> "WorkProof", public_key |-> public_key, nonce |-> nonce]

Transactions == {WorkProof(pk, n) : pk \in PublicKeys, n \in Nonces}

RECURSIVE DecimalBytes(_)
DecimalBytes(n) ==
    IF n < 10 THEN <<48 + n>>
    ELSE Append(DecimalBytes(n \div 10), 48 + (n % 10))

RECURSIVE JsonNumbers(_)
JsonNumbers(s) ==
    IF s = <<>> THEN <<>>
    ELSE IF Len(s) = 1 THEN DecimalBytes(s[1])
    ELSE DecimalBytes(s[1]) \o <<44>> \o JsonNumbers(Tail(s))

\* {"WorkProof":{"public_key":[
JsonWorkProofOpen ==
    <<123, 34, 87, 111, 114, 107, 80, 114, 111, 111, 102, 34, 58, 123,
      34, 112, 117, 98, 108, 105, 99, 95, 107, 101, 121, 34, 58, 91>>
\* ],"nonce":
JsonWorkProofMid == <<93, 44, 34, 110, 111, 110, 99, 101, 34, 58>>
\* }}
JsonWorkProofClose == <<125, 125>>

\* serde_json::to_vec(&transaction)
SerdeJsonToVec(transaction) ==
    JsonWorkProofOpen \o JsonNumbers(transaction.public_key)
        \o JsonWorkProofMid \o DecimalBytes(transaction.nonce)
        \o JsonWorkProofClose

(***************************************************************************)
(* The node: what its store can hold under each key, and its header chain  *)
(***************************************************************************)
\* Balances as the node writes them, and values of a wrong length.
WellFormedBalances == {<<0, 0, 0, 0, 0, 0, 1, 2>>, <<0, 0, 0, 0, 127, 255, 255, 255>>}
MalformedBalances == {<<>>, <<1, 2, 3>>, <<0, 0, 0, 0, 0, 0, 0, 1, 2>>}

StoreSamples(key) ==
    CASE key = SignatoriesKey -> {<<5, 1, 10>>, <<5, 3, 10>>}
      [] key = PrevSignatoriesKey -> {<<4, 2, 20, 21>>, <<4>>}
      [] key = BalanceKey(<<1>>) -> WellFormedBalances \cup MalformedBalances
      [] OTHER -> {<<0, 0, 0, 0, 0, 0, 0, 1>>}

StoreValues(key) == {None} \cup {Some(b) : b \in StoreSamples(key)}

\* A header is identified by its height; its hash is a different value.
BlockHash(header) == 1000 + header

StoreErr == Err("Store", "store query failed")

(***************************************************************************)
(* RemoteStore (client.rs lines 17-44)                                     *)
(***************************************************************************)
\* Faulty variant of RemoteStoreGet: answers from what the previous operation
\* fetched under the same key instead of asking the node again.
RemoteStoreGetCached(key, reachable) ==
    LET hits == {i \in DOMAIN adapterCalls :
                    /\ adapterCalls[i].op = "get"
                    /\ adapterCalls[i].key = key
                    /\ adapterCalls[i].resp.kind = "Ok"}
    IN IF ~reachable THEN StoreErr
       ELSE IF hits # {} THEN adapterCalls[CHOOSE i \in hits : TRUE].resp
       ELSE Ok(store[key])

\* impl Read: the answer of merk_store_client.get(key), passed on as it is.
\* The query reaches the node (reachable) or fails.
RemoteStoreGet(key, reachable) ==
    IF reachable THEN Ok(store[key]) ELSE StoreErr

GetCall(key, resp) == [op |-> "get", key |-> key, resp |-> resp]

\* Faulty variant of RemoteStorePut: performs the write and returns.
RemoteStorePutPersists(key, value) ==
    [result |-> Ok(<<>>), store |-> [store EXCEPT ![key] = Some(value)]]

\* impl Write: both methods panic; the store is left as it is.
RemoteStorePut(key, value) ==
    [result |-> Panic("Write method should not be called on a RemoteStore"),
     store |-> store]

RemoteStoreDelete(key) ==
    [result |-> Panic("Delete method should not be called on a RemoteStore"),
     store |-> store]

(***************************************************************************)
(* spv::headercache::HeaderCache (crate nomic_chain), over the adapter     *)
(***************************************************************************)
TrunkKey == <<116, 114, 117, 110, 107>>
TipKey == <<116, 105, 112>>

\* load_trunk(): no trunk while the node has synchronized no header,
\* otherwise the hashes of the trunk, earliest first.
HeaderCacheLoadTrunk ==
    LET report == IF headers = <<>> THEN None
                  ELSE Some([i \in 1..Len(headers) |-> BlockHash(headers[i])])
    IN [calls |-> <<GetCall(TrunkKey, Ok(report))>>, report |-> report]

\* tip(): the failure of the store lookup, or the latest header if any.
HeaderCacheTip(reachable) ==
    LET report == IF ~reachable THEN StoreErr
                  ELSE IF headers = <<>> THEN Ok(None)
                  ELSE Ok(Some([stored |-> [header |-> Last(headers)]]))
    IN [calls |-> <<GetCall(TipKey, report)>>, report |-> report]

(***************************************************************************)
(* Client (client.rs lines 46-153).  Each operation yields the adapter     *)
(* calls and RPC requests it makes and what it returns.                    *)
(***************************************************************************)
RpcPrefix == "Tendermint RPC error: "
TrunkMsg == "Unable to get header trunk"
TipMsg == "Unable to fetch Bitcoin tip header"
SignatorySetMsg == "Signatory set was not available in the store"
SnapshotMsg == "Signatory set snapshot was not available in the store"

TransportReplies ==
    {Ok(c) : c \in CommitResults} \cup {Err("Rpc", m) : m \in TransportErrors}

\* Faulty variant of send: submits a second time when the transport fails.
sendRetrying(transaction, reply) ==
    LET tx_bytes == SerdeJsonToVec(transaction)
        request == [method |-> "broadcast_tx_commit", tx |-> tx_bytes, reply |-> reply]
    IN [calls |-> <<>>,
        rpc |-> IF reply.kind = "Ok" THEN <<request>> ELSE <<request, request>>,
        result |-> IF reply.kind = "Ok" THEN reply
                  ELSE Err("Transport", <<RpcPrefix, reply.msg>>)]

\* reply is what rpc.broadcast_tx_commit(tx) answers.
send(transaction, reply) ==
    LET tx_bytes == SerdeJsonToVec(transaction)
        request == [method |-> "broadcast_tx_commit", tx |-> tx_bytes, reply |-> reply]
    IN [calls |-> <<>>,
        rpc |-> <<request>>,
        result |-> IF reply.kind = "Ok" THEN reply
                  ELSE Err("Transport", <<RpcPrefix, reply.msg>>)]

submit_work_proof(public_key, nonce, reply) ==
    LET work_transaction == WorkProof(public_key, nonce)
    IN send(work_transaction, reply)

\* Faulty variant of get_bitcoin_block_hashes: no trunk becomes an empty list.
get_bitcoin_block_hashes_or_default ==
    LET trunk == HeaderCacheLoadTrunk
    IN [calls |-> trunk.calls,
        rpc |-> <<>>,
        result |-> IF trunk.report.some THEN Ok(trunk.report.val) ELSE Ok(<<>>)]

get_bitcoin_block_hashes ==
    LET trunk == HeaderCacheLoadTrunk
    IN [calls |-> trunk.calls,
        rpc |-> <<>>,
        result |-> IF trunk.report.some THEN Ok(trunk.report.val)
                  ELSE Err("NotFound", TrunkMsg)]

\* Faulty variant of get_bitcoin_tip: no tip becomes an error value.
get_bitcoin_tip_recoverable(reachable) ==
    LET maybe_tip == HeaderCacheTip(reachable)
    IN [calls |-> maybe_tip.calls,
        rpc |-> <<>>,
        result |-> IF maybe_tip.report.kind = "Err" THEN maybe_tip.report
                  ELSE IF maybe_tip.report.val.some
                       THEN Ok(maybe_tip.report.val.val.stored.header)
                       ELSE Err("NotFound", TipMsg)]

get_bitcoin_tip(reachable) ==
    LET maybe_tip == HeaderCacheTip(reachable)
    IN [calls |-> maybe_tip.calls,
        rpc |-> <<>>,
        result |-> IF maybe_tip.report.kind = "Err" THEN maybe_tip.report
                  ELSE IF maybe_tip.report.val.some
                       THEN Ok(maybe_tip.report.val.val.stored.header)
                       ELSE Panic(TipMsg)]

\* The bail! of the closure: the message does not use the key.
SignatorySetNotFound(key) == Err("NotFound", SignatorySetMsg)

\* Faulty variant of the closure: a missing snapshot becomes an empty set.
get_signatory_set_or_empty(key, reachable) ==
    LET got == RemoteStoreGet(key, reachable)
        decoded == SignatorySetSnapshotDecode(got.val.val)
    IN [call |-> GetCall(key, got),
        result |-> IF got.kind = "Err" THEN got
                  ELSE IF ~got.val.some THEN Ok(<<>>)
                  ELSE IF decoded.kind = "Err" THEN decoded
                  ELSE Ok(decoded.val.signatories)]

\* The closure of get_signatory_sets: one lookup, decoded to its signatories.
get_signatory_set(key, reachable) ==
    LET got == RemoteStoreGet(key, reachable)
        decoded == SignatorySetSnapshotDecode(got.val.val)
    IN [call |-> GetCall(key, got),
        result |-> IF got.kind = "Err" THEN got
                  ELSE IF ~got.val.some THEN SignatorySetNotFound(key)
                  ELSE IF decoded.kind = "Err" THEN decoded
                  ELSE Ok(decoded.val.signatories)]

\* Faulty variant of get_signatory_set_snapshot: reads the previous snapshot.
get_signatory_set_snapshot_prev(reachable) ==
    LET got == RemoteStoreGet(PrevSignatoriesKey, reachable)
    IN [calls |-> <<GetCall(PrevSignatoriesKey, got)>>,
        rpc |-> <<>>,
        result |-> IF got.kind = "Err" THEN got
                  ELSE IF ~got.val.some THEN Err("NotFound", SnapshotMsg)
                  ELSE SignatorySetSnapshotDecode(got.val.val)]

get_signatory_set_snapshot(reachable) ==
    LET got == RemoteStoreGet(SignatoriesKey, reachable)
    IN [calls |-> <<GetCall(SignatoriesKey, got)>>,
        rpc |-> <<>>,
        result |-> IF got.kind = "Err" THEN got
                  ELSE IF ~got.val.some THEN Err("NotFound", SnapshotMsg)
                  ELSE SignatorySetSnapshotDecode(got.val.val)]

\* Faulty variant of get_balance: a missing balance is reported as an error.
get_balance_miss_fails(address, reachable) ==
    LET key == BalanceKey(address)
        got == RemoteStoreGet(key, reachable)
        balance_bytes == [i \in 1..BalanceLen |-> 0]
        copied == copy_from_slice(balance_bytes, got.val.val)
    IN [calls |-> <<GetCall(key, got)>>,
        rpc |-> <<>>,
        result |-> IF got.kind = "Err" THEN got
                  ELSE IF ~got.val.some THEN Err("NotFound", "balance not found")
                  ELSE IF copied.kind = "Panic" THEN copied
                  ELSE Ok(from_be_bytes(copied.val))]

\* Faulty variant of get_balance: writes the balance it read back through
\* the adapter.
get_balance_writing_back(address, reachable) ==
    LET key == BalanceKey(address)
        got == RemoteStoreGet(key, reachable)
        put == RemoteStorePut(key, got.val.val)
    IN [calls |-> IF got.kind = "Ok" /\ got.val.some
                  THEN <<GetCall(key, got), [op |-> "put", key |-> key, resp |-> put.result]>>
                  ELSE <<GetCall(key, got)>>,
        rpc |-> <<>>,
        result |-> IF got.kind = "Err" THEN got
                  ELSE IF ~got.val.some THEN Ok(0)
                  ELSE put.result]

get_balance(address, reachable) ==
    LET key == BalanceKey(address)
        got == RemoteStoreGet(key, reachable)
        balance_bytes == [i \in 1..BalanceLen |-> 0]
        copied == copy_from_slice(balance_bytes, got.val.val)
    IN [calls |-> <<GetCall(key, got)>>,
        rpc |-> <<>>,
        result |-> IF got.kind = "Err" THEN got
                  ELSE IF ~got.val.some THEN Ok(0)
                  ELSE IF copied.kind = "Panic" THEN copied
                  ELSE Ok(from_be_bytes(copied.val))]

(***************************************************************************)
(* The state machine                                                       *)
(***************************************************************************)
\* A session constructed against a node that holds nothing yet.
Init ==
    /\ store = [k \in Keys |-> None]
    /\ headers = <<>>
    /\ alive = TRUE
    /\ pc = "idle"
    /\ lastAct = "client"
    /\ lastOp = "new"
    /\ args = <<>>
    /\ adapterCalls = <<>>
    /\ rpcCalls = <<>>
    /\ result = Ok("Client")

\* A blocking call of one public operation: it runs to its end in one step.
Call(op, arguments, outcome) ==
    /\ alive
    /\ pc = "idle"
    /\ lastAct' = "client"
    /\ lastOp' = op
    /\ args' = arguments
    /\ adapterCalls' = outcome.calls
    /\ rpcCalls' = outcome.rpc
    /\ result' = outcome.result
    /\ alive' = (outcome.result.kind # "Panic")
    /\ UNCHANGED <<store, headers, pc>>

\* Client::new in a new process, after a panic ended the previous one.
New ==
    /\ ~alive
    /\ \E address_ok \in BOOLEAN :
          /\ alive' = address_ok
          /\ result' = IF address_ok THEN Ok("Client")
                       ELSE Panic("called Result::unwrap() on an Err value")
    /\ pc' = "idle"
    /\ lastAct' = "client"
    /\ lastOp' = "new"
    /\ args' = <<>>
    /\ adapterCalls' = <<>>
    /\ rpcCalls' = <<>>
    /\ UNCHANGED <<store, headers>>

Send ==
    \E transaction \in Transactions, reply \in TransportReplies :
        Call("send", [transaction |-> transaction], send(transaction, reply))

SubmitWorkProof ==
    \E public_key \in PublicKeys, nonce \in Nonces, reply \in TransportReplies :
        Call("submit_work_proof", [public_key |-> public_key, nonce |-> nonce],
             submit_work_proof(public_key, nonce, reply))

GetBitcoinBlockHashes ==
    Call("get_bitcoin_block_hashes", <<>>, get_bitcoin_block_hashes)

GetBitcoinTip ==
    \E reachable \in BOOLEAN :
        Call("get_bitcoin_tip", <<>>, get_bitcoin_tip(reachable))

GetSignatorySetSnapshot ==
    \E reachable \in BOOLEAN :
        Call("get_signatory_set_snapshot", <<>>, get_signatory_set_snapshot(reachable))

GetBalance ==
    \E address \in Addresses, reachable \in BOOLEAN :
        Call("get_balance", [address |-> address], get_balance(address, reachable))

\* get_signatory_sets makes two round trips; the node may change in between.
\* First element of the vec!: the "signatories" lookup.
GetSignatorySetsCurrent ==
    /\ alive
    /\ pc = "idle"
    /\ \E reachable \in BOOLEAN :
          LET first == get_signatory_set(SignatoriesKey, reachable)
          IN /\ adapterCalls' = <<first.call>>
             /\ IF first.result.kind = "Ok"
                THEN /\ pc' = "prev"
                     /\ result' = [kind |-> "Pending", val |-> <<first.result.val>>]
                ELSE /\ pc' = "idle"
                     /\ result' = first.result
    /\ lastAct' = "client"
    /\ lastOp' = "get_signatory_sets"
    /\ args' = <<>>
    /\ rpcCalls' = <<>>
    /\ UNCHANGED <<store, headers, alive>>

\* Second element of the vec!: the "prev_signatories" lookup, then return.
GetSignatorySetsPrev ==
    /\ alive
    /\ pc = "prev"
    /\ \E reachable \in BOOLEAN :
          LET second == get_signatory_set(PrevSignatoriesKey, reachable)
          IN /\ adapterCalls' = Append(adapterCalls, second.call)
             /\ result' = IF second.result.kind = "Ok"
                          THEN Ok(Append(result.val, second.result.val))
                          ELSE second.result
    /\ pc' = "idle"
    /\ lastAct' = "client"
    /\ UNCHANGED <<store, headers, alive, lastOp, args, rpcCalls>>

\* A direct call of the adapter's Write methods (the trait is implemented,
\* so any holder of the adapter can make it).
AdapterWrite(op, arguments, call, outcome) ==
    /\ alive
    /\ pc = "idle"
    /\ lastAct' = "client"
    /\ lastOp' = op
    /\ args' = arguments
    /\ adapterCalls' = <<call>>
    /\ rpcCalls' = <<>>
    /\ result' = outcome.result
    /\ store' = outcome.store
    /\ alive' = (outcome.result.kind # "Panic")
    /\ UNCHANGED <<headers, pc>>

Put ==
    \E key \in Keys :
        \E value \in StoreSamples(key) :
            LET outcome == RemoteStorePut(key, value)
            IN AdapterWrite("put", [key |-> key, value |-> value],
                            [op |-> "put", key |-> key, resp |-> outcome.result],
                            outcome)

Delete ==
    \E key \in Keys :
        LET outcome == RemoteStoreDelete(key)
        IN AdapterWrite("delete", [key |-> key],
                        [op |-> "delete", key |-> key, resp |-> outcome.result],
                        outcome)

\* The node commits a block that changes one key of its store.
NodeWrite ==
    /\ \E key \in Keys :
          \E value \in StoreValues(key) \ {store[key]} :
              store' = [store EXCEPT ![key] = value]
    /\ lastAct' = "node"
    /\ UNCHANGED <<headers, alive, pc, lastOp, args, adapterCalls, rpcCalls, result>>

\* The node's SPV client accepts the next Bitcoin header.
NodeSyncHeader ==
    /\ Len(headers) < MaxTrunk
    /\ headers' = Append(headers, Len(headers) + 1)
    /\ lastAct' = "node"
    /\ UNCHANGED <<store, alive, pc, lastOp, args, adapterCalls, rpcCalls, result>>

Next ==
    \/ New
    \/ Send
    \/ SubmitWorkProof
    \/ GetBitcoinBlockHashes
    \/ GetBitcoinTip
    \/ GetSignatorySetsCurrent
    \/ GetSignatorySetsPrev
    \/ GetSignatorySetSnapshot
    \/ GetBalance
    \/ Put
    \/ Delete
    \/ NodeWrite
    \/ NodeSyncHeader

Spec == Init /\ [][Next]_vars

(***************************************************************************)
(* Helpers of the properties                                               *)
(***************************************************************************)
Absent(resp) == resp.kind = "Ok" /\ ~resp.val.some
Present(resp) == resp.kind = "Ok" /\ resp.val.some

OtherSignatoryKey(key) ==
    IF key = SignatoriesKey THEN PrevSignatoriesKey ELSE SignatoriesKey

FirstIndex(s, c) == CHOOSE i \in 1..Len(s) : s[i] = c /\ \A j \in 1..(i - 1) : s[j] # c

RECURSIVE ParseDecimalFrom(_, _)
ParseDecimalFrom(acc, digits) ==
    IF digits = <<>> THEN acc
    ELSE ParseDecimalFrom(acc * 10 + (Head(digits) - 48), Tail(digits))

ParseDecimal(digits) == ParseDecimalFrom(0, digits)

RECURSIVE ParseNumbers(_)
ParseNumbers(s) ==
    IF s = <<>> THEN <<>>
    ELSE IF \A i \in 1..Len(s) : s[i] # 44 THEN <<ParseDecimal(s)>>
    ELSE LET comma == FirstIndex(s, 44)
         IN <<ParseDecimal(SubSeq(s, 1, comma - 1))>>
                \o ParseNumbers(SubSeq(s, comma + 1, Len(s)))

\* Reads a WorkProof transaction back from its JSON bytes.
JsonParseWorkProof(bytes) ==
    LET n == Len(JsonWorkProofOpen)
        m == Len(JsonWorkProofMid)
        close == FirstIndex(bytes, 93)
        rest == SubSeq(bytes, close, Len(bytes))
    IN IF /\ Len(bytes) > n + m + 2
          /\ SubSeq(bytes, 1, n) = JsonWorkProofOpen
          /\ SubSeq(rest, 1, m) = JsonWorkProofMid
          /\ SubSeq(rest, Len(rest) - 1, Len(rest)) = JsonWorkProofClose
       THEN WorkProof(ParseNumbers(SubSeq(bytes, n + 1, close - 1)),
                      ParseDecimal(SubSeq(rest, m + 1, Len(rest) - 2)))
       ELSE [tag |-> "invalid"]

PublicOps ==
    {"send", "submit_work_proof", "get_bitcoin_block_hashes", "get_bitcoin_tip",
     "get_signatory_sets", "get_signatory_set_snapshot", "get_balance"}

(***************************************************************************)
(* Properties                                                              *)
(***************************************************************************)

\* C1: get_balance(address) makes one lookup, of the key "balances/" ++ address,
\* and nothing else; when the lookup answers that the key is absent the call
\* returns Ok(0), and when it answers 8 bytes the call returns Ok(v) for the v
\* whose big-endian encoding those bytes are.  Right after the call the answer
\* is the value the node's store holds under that key, whatever the other keys
\* hold.
C1_BalanceLookup ==
    lastOp = "get_balance" =>
        LET key == BalancesPrefix \o args.address
            call == adapterCalls[1]
        IN /\ Len(adapterCalls) = 1
           /\ call.op = "get"
           /\ call.key = key
           /\ rpcCalls = <<>>
           /\ (lastAct = "client" /\ call.resp.kind = "Ok") => call.resp.val = store[key]
           /\ Absent(call.resp) => result = Ok(0)
           /\ (Present(call.resp) /\ Len(call.resp.val.val) = 8) =>
                 /\ result.kind = "Ok"
                 /\ result.val \in Nat
                 /\ to_be_bytes(result.val) = call.resp.val.val

\* A funded account read back while other keys of the store are populated.
C1_Witness ==
    /\ lastOp = "get_balance"
    /\ lastAct = "client"
    /\ args.address = <<1>>
    /\ store[BalanceKey(<<1>>)] = Some(<<0, 0, 0, 0, 0, 0, 1, 2>>)
    /\ store[BalanceKey(<<2>>)] # None
    /\ store[SignatoriesKey] # None
    /\ result = Ok(258)

\* C2 (as claimed): a balance stored with a length other than 8 bytes makes
\* get_balance return a Decode error to the caller, and the process lives on.
C2_WrongLengthIsDecodeError ==
    (/\ lastOp = "get_balance"
     /\ Present(adapterCalls[1].resp)
     /\ Len(adapterCalls[1].resp.val.val) # 8) =>
        /\ result.kind = "Err"
        /\ result.class = "Decode"
        /\ alive

\* C3: a call of put or delete on the adapter ends in a panic that terminates
\* the process; it never returns Ok or Err, and the store is left unchanged.
C3_WriteIsFatal ==
    [][(lastAct' = "client" /\ lastOp' \in {"put", "delete"}) =>
          /\ result'.kind = "Panic"
          /\ Last(adapterCalls').resp.kind = "Panic"
          /\ ~alive'
          /\ store' = store]_vars

\* A put of a value the store does not hold has panicked.
C3_Witness ==
    /\ lastOp = "put"
    /\ lastAct = "client"
    /\ result.kind = "Panic"
    /\ ~alive
    /\ store[args.key] # Some(args.value)

C5_ErrorNamesMissingSet ==
    (/\ lastOp = "get_signatory_sets"
     /\ pc = "idle"
     /\ Absent(Last(adapterCalls).resp)) =>
        /\ result.kind = "Err"
        /\ result.class = "NotFound"
        /\ result # SignatorySetNotFound(OtherSignatoryKey(Last(adapterCalls).key))

\* C5 (amended): get_signatory_sets looks up "signatories" and then, if that
\* one was fetched and decoded, "prev_signatories"; when a lookup answers that
\* its key is absent the call fails with the not-found error "Signatory set
\* was not available in the store", the same for either key.
C5_SameNotFoundForEitherSet ==
    (lastOp = "get_signatory_sets" /\ pc = "idle") =>
        /\ Len(adapterCalls) \in {1, 2}
        /\ adapterCalls[1].key = SignatoriesKey
        /\ Len(adapterCalls) = 2 =>
              /\ adapterCalls[2].key = PrevSignatoriesKey
              /\ Present(adapterCalls[1].resp)
        /\ Absent(Last(adapterCalls).resp) =>
              result = Err("NotFound", SignatorySetMsg)

\* Only "prev_signatories" is missing.
C5_Witness ==
    /\ lastOp = "get_signatory_sets"
    /\ pc = "idle"
    /\ lastAct = "client"
    /\ Len(adapterCalls) = 2
    /\ store[SignatoriesKey] # None
    /\ store[PrevSignatoriesKey] = None
    /\ result = Err("NotFound", SignatorySetMsg)

\* C6: get_signatory_set_snapshot makes one lookup, of "signatories"; if the
\* key is absent it fails with the not-found error about the snapshot, whatever
\* "prev_signatories" holds; if it is present the result is the decoding of
\* the stored bytes: the snapshot that encodes to them, or a Decode error when
\* they are no encoding.
C6_SnapshotLookup ==
    lastOp = "get_signatory_set_snapshot" =>
        LET call == adapterCalls[1]
            bytes == call.resp.val.val
        IN /\ Len(adapterCalls) = 1
           /\ call.op = "get"
           /\ call.key = SignatoriesKey
           /\ (lastAct = "client" /\ call.resp.kind = "Ok") =>
                 call.resp.val = store[SignatoriesKey]
           /\ Absent(call.resp) =>
                 /\ result = Err("NotFound", SnapshotMsg)
                 /\ result # SignatorySetNotFound(SignatoriesKey)
           /\ Present(call.resp) =>
                 IF result.kind = "Ok"
                 THEN SignatorySetSnapshotEncode(result.val) = bytes
                 ELSE /\ result.kind = "Err"
                      /\ result.class = "Decode"
                      /\ Len(bytes) < 2 \/ bytes[2] # Len(bytes) - 2

\* "signatories" is absent while "prev_signatories" is present.
C6_Witness ==
    /\ lastOp = "get_signatory_set_snapshot"
    /\ lastAct = "client"
    /\ store[SignatoriesKey] = None
    /\ store[PrevSignatoriesKey] # None
    /\ result = Err("NotFound", SnapshotMsg)

C9_TipOutcomes ==
    lastOp = "get_bitcoin_tip" =>
        LET report == adapterCalls[1].resp
        IN /\ report.kind = "Err" => (result = report /\ alive)
           /\ Present(report) =>
                 /\ result = Ok(report.val.val.stored.header)
                 /\ alive
                 /\ lastAct = "client" => result.val = Last(headers)
           /\ Absent(report) => (result.kind = "Panic" /\ ~alive)
           /\ (lastAct = "client" /\ result.kind = "Panic") => headers = <<>>

\* The node has synchronized no header and the call has panicked.
C9_Witness ==
    /\ lastOp = "get_bitcoin_tip"
    /\ lastAct = "client"
    /\ headers = <<>>
    /\ result = Panic(TipMsg)
    /\ ~alive

\* C10: the lookup a view call has just made returned the value its key has
\* in the node's store now, whatever earlier lookups returned.
C10_NoCaching ==
    (/\ lastAct = "client"
     /\ lastOp \in {"get_balance", "get_signatory_set_snapshot", "get_signatory_sets"}
     /\ Last(adapterCalls).resp.kind = "Ok") =>
        Last(adapterCalls).resp.val = store[Last(adapterCalls).key]

\* The two lookups of one get_signatory_sets call saw different stores: the
\* first answer is no longer what the store holds, the second one is.
C10_Witness ==
    /\ lastOp = "get_signatory_sets"
    /\ lastAct = "client"
    /\ pc = "idle"
    /\ Len(adapterCalls) = 2
    /\ Present(adapterCalls[1].resp)
    /\ adapterCalls[1].resp.val # store[SignatoriesKey]
    /\ Present(adapterCalls[2].resp)
    /\ adapterCalls[2].resp.val = store[PrevSignatoriesKey]

====
